---- MODULE Spec2Model ----
(***************************************************************************)
(* Model of the novax executor backends:                                   *)
(*   - BaseTransactionNetworkExecutor (network/transaction/executor.rs):   *)
(*     sc_call, sc_deploy, find_smart_contract_result;                     *)
(*   - DummyExecutor (dummy/transaction.rs): new, sc_call, sc_deploy.      *)
(* Strings whose characters matter (the data of a smart-contract result)   *)
(* are sequences of one-character strings; byte strings are sequences of   *)
(* integers 0..255.  A Rust panic (assert_eq!, expect, todo!) is an        *)
(* outcome of kind "panic": the call returns no value to its caller.       *)
(***************************************************************************)
EXTENDS Integers, Sequences, FiniteSets, TLC

(***************************************************************************)
(* Bounds of the model.                                                    *)
(***************************************************************************)
\* longest smart-contract-result list the interactor returns
MaxScr == 2
\* number of sc_deploy calls counted on one DummyExecutor<ScDeployStep>
MaxDeployCalls == 3

(***************************************************************************)
(* Character strings and hex decoding (hex::decode).                       *)
(***************************************************************************)
LowerHex == <<"0","1","2","3","4","5","6","7","8","9","a","b","c","d","e","f">>
UpperHex == <<"0","1","2","3","4","5","6","7","8","9","A","B","C","D","E","F">>

IsHexChar(c) == \E i \in 1..16 : LowerHex[i] = c \/ UpperHex[i] = c

HexVal(c) == (CHOOSE i \in 1..16 : LowerHex[i] = c \/ UpperHex[i] = c) - 1

RECURSIVE HexBytes(_)
HexBytes(s) ==
    IF Len(s) < 2 THEN <<>>
    ELSE <<16 * HexVal(s[1]) + HexVal(s[2])>> \o HexBytes(SubSeq(s, 3, Len(s)))

\* hex::decode: Err on odd length or on a character that is no hex digit,
\* otherwise the bytes, two characters each, in order.
HexDecode(s) ==
    IF Len(s) % 2 # 0 \/ \E i \in 1..Len(s) : ~IsHexChar(s[i])
    THEN [ok |-> FALSE, bytes |-> <<>>]
    ELSE [ok |-> TRUE, bytes |-> HexBytes(s)]

\* str::starts_with('@')
StartsWithAt(s) == Len(s) > 0 /\ s[1] = "@"

\* str::split('@'): the fields between the separators, empty ones included;
\* a string without separator is its own single field.
RECURSIVE SplitAt(_)
SplitAt(s) ==
    IF \A i \in 1..Len(s) : s[i] # "@" THEN <<s>>
    ELSE LET i == CHOOSE k \in 1..Len(s) :
                     s[k] = "@" /\ \A j \in 1..(k-1) : s[j] # "@"
         IN  <<SubSeq(s, 1, i - 1)>> \o SplitAt(SubSeq(s, i + 1, Len(s)))

\* the success code "6f6b" (hex of "ok")
OkCode == <<"6","f","6","b">>

(***************************************************************************)
(* Values exchanged with the interactor and returned to the caller.        *)
(***************************************************************************)
\* Option<Vec<TransactionOnNetworkTransactionSmartContractResult>>
NoneScrs == [present |-> FALSE, list |-> <<>>]
SomeScrs(l) == [present |-> TRUE, list |-> l]

\* TransactionOnNetwork; present = FALSE stands for "no response held"
NoResponse == [present |-> FALSE, smart_contract_results |-> NoneScrs]
Response(scrs) == [present |-> TRUE, smart_contract_results |-> scrs]

\* Option<Native>
NoneValue == [some |-> FALSE, value |-> <<>>]
SomeValue(v) == [some |-> TRUE, value |-> v]

\* What an invocation hands back: nothing yet, Ok(CallResult), Err(e), or a
\* panic with its message (no value reaches the caller).
NoOutcome == [kind |-> "none", err |-> "", response |-> NoResponse, result |-> NoneValue]
Ok(response, result) == [kind |-> "ok", err |-> "", response |-> response, result |-> result]
Err(e) == [kind |-> "err", err |-> e, response |-> NoResponse, result |-> NoneValue]
Panic(m) == [kind |-> "panic", err |-> m, response |-> NoResponse, result |-> NoneValue]

(***************************************************************************)
(* find_smart_contract_result                                              *)
(***************************************************************************)
FindNone == [kind |-> "None", args |-> <<>>, msg |-> ""]
FindSome(args) == [kind |-> "Some", args |-> args, msg |-> ""]
FindPanic(m) == [kind |-> "panic", args |-> <<>>, msg |-> m]
\* the scan has not run
NoScan == [kind |-> "unset", args |-> <<>>, msg |-> ""]

\* Qualifies without the nonce test
QualifiesAnyNonce(sc_result) == StartsWithAt(sc_result.data)

\* the predicate of .find(...)
Qualifies(sc_result) == sc_result.nonce # 0 /\ StartsWithAt(sc_result.data)

\* Iterator::find: index of the first entry the predicate accepts, 0 if none
FirstQualifying(sc_results) ==
    IF \A i \in 1..Len(sc_results) : ~Qualifies(sc_results[i]) THEN 0
    ELSE CHOOSE i \in 1..Len(sc_results) :
            Qualifies(sc_results[i]) /\ \A j \in 1..(i-1) : ~Qualifies(sc_results[j])

\* the closure given to .map(...): split, check the result code, hex-decode
\* every field after it
DecodeScr(sc_result) ==
    LET split == SplitAt(sc_result.data)
    IN  IF Len(split) < 1 THEN FindPanic("SCR data should start with '@'")
        ELSE IF Len(split) < 2 THEN FindPanic("missing result code")
        ELSE IF split[2] # OkCode THEN FindPanic("result code is not 'ok'")
        ELSE LET fields == SubSeq(split, 3, Len(split))
             IN  IF \E k \in 1..Len(fields) : ~HexDecode(fields[k]).ok
                 THEN FindPanic("error hex-decoding result")
                 ELSE FindSome([k \in 1..Len(fields) |-> HexDecode(fields[k]).bytes])

\* find_smart_contract_result falling back on a later qualifying entry when
\* the first one does not decode
find_smart_contract_result_fallback(opt_sc_results) ==
    IF ~opt_sc_results.present THEN FindNone
    ELSE LET l == opt_sc_results.list
             i == FirstQualifying(l)
             good == { j \in 1..Len(l) : Qualifies(l[j]) /\ DecodeScr(l[j]).kind = "Some" }
         IN  IF i = 0 THEN FindNone
             ELSE IF good = {} THEN DecodeScr(l[i])
             ELSE DecodeScr(l[CHOOSE j \in good : \A k \in good : j <= k])

find_smart_contract_result(opt_sc_results) ==
    IF ~opt_sc_results.present THEN FindNone
    ELSE LET i == FirstQualifying(opt_sc_results.list)
         IN  IF i = 0 THEN FindNone ELSE DecodeScr(opt_sc_results.list[i])

(***************************************************************************)
(* Input universes.                                                        *)
(***************************************************************************)
RECURSIVE Concat(_)
Concat(ss) == IF Len(ss) = 0 THEN <<>> ELSE Head(ss) \o Concat(Tail(ss))

SeqsUpTo(S, n) == UNION { [1..k -> S] : k \in 0..n }

\* pieces of the data strings below
At == <<"@">>
Hex2a == <<"2","a">>
Hex0b == <<"0","b">>
HexUnknown == <<"7","5","6","e","6","b","6","e","6","f","7","7","6","e">>

\* the data strings the interactor's smart-contract results carry
DataStrings ==
    { <<>>,                                        \* ""
      OkCode,                                      \* "6f6b": no '@' in front
      Concat(<<<<"g">>, At, OkCode, At, Hex2a>>),  \* "g@6f6b@2a": '@' not first
      At,                                          \* "@": empty result code
      Concat(<<At, OkCode>>),                      \* "@6f6b"
      Concat(<<At, OkCode, At, Hex2a>>),           \* "@6f6b@2a"
      Concat(<<At, OkCode, At, Hex2a, At, Hex0b>>),\* "@6f6b@2a@0b"
      Concat(<<At, OkCode, At>>),                  \* "@6f6b@": one empty field
      Concat(<<At, OkCode, At, Hex2a, Hex0b>>),    \* "@6f6b@2a0b": a two-byte field
      Concat(<<At, OkCode, At, <<"2","A">>>>),     \* "@6f6b@2A": upper-case hex
      Concat(<<At, OkCode, At, <<"7">>>>),         \* "@6f6b@7": odd length
      Concat(<<At, OkCode, At, Hex2a, At, <<"2","g">>>>), \* "@6f6b@2a@2g": no hex digit
      Concat(<<At, HexUnknown>>),                  \* "@756e6b6e6f776e"
      Concat(<<At, <<"6","F","6","B">>>>),         \* "@6F6B": not the literal 6f6b
      Concat(<<At, OkCode, Hex2a>>) }              \* "@6f6b2a"

Nonces == {0, 7}
ScrRecords == [nonce : Nonces, data : DataStrings]
ScrOptions == {NoneScrs} \cup { SomeScrs(l) : l \in SeqsUpTo(ScrRecords, MaxScr) }

GatewayUrls == {"https://gw1", "https://gw2"}
Wallets == {"alice", "mallory"}
Addresses == {"erd1contract", "malformed"}
Functions == {"getSum"}
TransferLists == { <<>>, <<"invalid">> }
OutputTypes == {"u8", "ManagedBuffer"}

(***************************************************************************)
(* Collaborators outside the two source files, at their interface.         *)
(***************************************************************************)
\* Address::to_bech32_string: Err on a malformed address
ToBech32(a) == [ok |-> a # "malformed", str |-> a]
\* Wallet::get_address
WalletAddress(w) == IF w = "mallory" THEN "malformed" ELSE "erd1" \o w

\* NormalizationInOut{..}.normalize() and the `?` on the two address
\* conversions before it: Err on a malformed address or an invalid transfer
Normalize(w, to, function, esdt_transfers) ==
    IF ~ToBech32(WalletAddress(w)).ok \/ ~ToBech32(to).ok
       \/ \E i \in 1..Len(esdt_transfers) : esdt_transfers[i] = "invalid"
    THEN [ok |-> FALSE, receiver |-> "", transaction_data |-> ""]
    ELSE [ok |-> TRUE, receiver |-> ToBech32(to).str, transaction_data |-> function]

\* OutputManaged::multi_decode followed by to_native, for the two output
\* types of the model: both take the first raw argument; u8 rejects an
\* argument longer than one byte.
MultiDecode(output, sc_result) ==
    IF Len(sc_result) = 0 THEN [ok |-> FALSE, native |-> <<>>]
    ELSE IF output = "u8"
         THEN IF Len(sc_result[1]) > 1 THEN [ok |-> FALSE, native |-> <<>>]
              ELSE [ok |-> TRUE,
                    native |-> IF Len(sc_result[1]) = 0 THEN <<0>> ELSE sc_result[1]]
         ELSE [ok |-> TRUE, native |-> sc_result[1]]

\* Option<Address>
NoneAddress == [some |-> FALSE, addr |-> ""]
SomeAddress(a) == [some |-> TRUE, addr |-> a]
Callers == {NoneAddress, SomeAddress("erd1carol"), SomeAddress("erd1dave")}

\* ScDeployStep, by the fields the model tells apart
ScDeploySteps == [from : {"", "erd1dave"}, contract_code : {"codeA", "codeB"},
                  gas_limit : {5, 60}]
\* Tx::default() of DummyExecutor::new
ScDeployStepDefault == [from |-> "", contract_code |-> "", gas_limit |-> 0]
\* ScDeployStep::new().into(), what mem::replace leaves in the caller's descriptor
ScDeployStepNew == [from |-> "", contract_code |-> "", gas_limit |-> 0]
\* TypedScDeploy::from(address)
StampFrom(step, addr) == [step EXCEPT !.from = addr]

\* ScCallStep
ScCallStepDefault == [from |-> "", to |-> "", function |-> "", gas_limit |-> 0,
                      esdt_transfers |-> <<>>]
CallRequests == [to : Addresses, function : Functions, gas_limit : {5, 60},
                 esdt_transfers : TransferLists]
NoCallRequest == [to |-> "", function |-> "", gas_limit |-> 0, esdt_transfers |-> <<>>]

(***************************************************************************)
(* State.                                                                  *)
(***************************************************************************)
VARIABLES
    \* BaseTransactionNetworkExecutor
    gateway_url,     \* field gateway_url
    wallet,          \* field wallet
    net_pc,          \* "idle", "await_new", "await_sc_call", "done", "panicked"
    net_req,         \* the operation in progress and its arguments
    interactor,      \* the local `interactor` of sc_call
    ops,             \* what the invocation has done so far, in order
    result,          \* the local `result` of sc_call: the interactor's response
    sc_result,       \* the local `sc_result` of sc_call: what the scan returned
    net_outcome,     \* what the invocation handed back
    \* DummyExecutor<ScDeployStep>
    deploy_tx,       \* field tx
    deploy_caller,   \* field caller
    sc_deploy_step,  \* the caller's descriptor, as sc_deploy leaves it
    deploy_ret,      \* what the last sc_deploy handed back
    deploy_passed,   \* the step passed to the last sc_deploy
    deploy_calls,    \* number of sc_deploy calls so far
    deploy_caller0,  \* the caller given to DummyExecutor::new
    \* DummyExecutor<ScCallStep>
    call_tx,         \* field tx
    call_caller,     \* field caller
    call_req,        \* the arguments of the sc_call in progress
    call_outcome,    \* what that sc_call handed back
    \* callers
    backend,         \* the backend selected at construction: "network" or "dummy"
    skip_ret,        \* what the last should_skip_deserialization returned, and where
    clone            \* a clone of the network executor and its sc_call in progress

netVars == <<gateway_url, wallet, net_pc, net_req, interactor, ops, result, sc_result,
             net_outcome>>
deployVars == <<deploy_tx, deploy_caller, sc_deploy_step, deploy_ret, deploy_passed,
                deploy_calls, deploy_caller0>>
callVars == <<call_tx, call_caller, call_req, call_outcome>>
callerVars == <<backend, skip_ret, clone>>
vars == <<netVars, deployVars, callVars, callerVars>>

NoRequest == [op |-> "none", to |-> "", function |-> "", esdt_transfers |-> <<>>,
              output |-> ""]
NoInteractor == [open |-> FALSE, gateway_url |-> "", wallet |-> ""]

NoSkip == [who |-> "none", value |-> FALSE, at |-> ""]
\* no clone made: the fields and the locals of a call, as for the executor itself
NoClone == [made |-> FALSE, gateway_url |-> "", wallet |-> "", pc |-> "idle",
            req |-> NoRequest, interactor |-> NoInteractor, ops |-> <<>>,
            result |-> NoResponse, sc_result |-> NoScan, outcome |-> NoOutcome]

\* BaseTransactionNetworkExecutor::new(gateway_url, wallet)
NetworkExecutorNew(g, w) ==
    /\ gateway_url = g
    /\ wallet = w
    /\ net_pc = "idle"
    /\ net_req = NoRequest
    /\ interactor = NoInteractor
    /\ ops = <<>>
    /\ result = NoResponse
    /\ sc_result = NoScan
    /\ net_outcome = NoOutcome

\* DummyExecutor::<ScDeployStep>::new(caller)
DummyDeployExecutorNew(caller) ==
    /\ deploy_tx = ScDeployStepDefault
    /\ deploy_caller = caller
    /\ sc_deploy_step = ScDeployStepNew
    /\ deploy_ret = "none"
    /\ deploy_passed = ScDeployStepDefault
    /\ deploy_calls = 0
    /\ deploy_caller0 = caller

\* DummyExecutor::<ScCallStep>::new(caller)
DummyTransactionExecutorNew(caller) ==
    /\ call_tx = ScCallStepDefault
    /\ call_caller = caller
    /\ call_req = NoCallRequest
    /\ call_outcome = NoOutcome

(***************************************************************************)
(* BaseTransactionNetworkExecutor::sc_call, one action per await point.    *)
(***************************************************************************)
\* ScCallDecode with a missing smart-contract result taken for an empty success
ScCallDecodeNoneAsOk(output, response) ==
    LET found == find_smart_contract_result(response.smart_contract_results)
    IN  IF found.kind = "None" THEN Ok(response, NoneValue)
        ELSE IF found.kind = "panic" THEN Panic(found.msg)
        ELSE LET decoded == MultiDecode(output, found.args)
             IN  IF ~decoded.ok THEN Err("CannotDecodeSmartContractResult")
                 ELSE Ok(response, SomeValue(decoded.native))

\* ScCallDecode with the failed typed decode reported as a missing result
ScCallDecodeOneError(output, response) ==
    LET found == find_smart_contract_result(response.smart_contract_results)
    IN  IF found.kind = "None" THEN Err("NoSmartContractResult")
        ELSE IF found.kind = "panic" THEN Panic(found.msg)
        ELSE LET decoded == MultiDecode(output, found.args)
             IN  IF ~decoded.ok THEN Err("NoSmartContractResult")
                 ELSE Ok(response, SomeValue(decoded.native))

\* ScCallDecode with the failed typed decode swallowed into result: None
ScCallDecodeSwallow(output, response) ==
    LET found == find_smart_contract_result(response.smart_contract_results)
    IN  IF found.kind = "None" THEN Err("NoSmartContractResult")
        ELSE IF found.kind = "panic" THEN Panic(found.msg)
        ELSE LET decoded == MultiDecode(output, found.args)
             IN  IF ~decoded.ok THEN Ok(response, NoneValue)
                 ELSE Ok(response, SomeValue(decoded.native))

\* lines 136-150: what sc_call hands back once the interactor has returned
\* the finalized transaction
ScCallDecode(output, response) ==
    LET found == find_smart_contract_result(response.smart_contract_results)
    IN  IF found.kind = "None" THEN Err("NoSmartContractResult")
        ELSE IF found.kind = "panic" THEN Panic(found.msg)
        ELSE LET decoded == MultiDecode(output, found.args)
             IN  IF ~decoded.ok THEN Err("CannotDecodeSmartContractResult")
                 ELSE Ok(response, SomeValue(decoded.native))

\* the operations of lines 136-141 that run on that response, in order
ScCallDecodeOps(response) ==
    IF find_smart_contract_result(response.smart_contract_results).kind = "Some"
    THEN <<"find_smart_contract_result", "multi_decode">>
    ELSE <<"find_smart_contract_result">>

\* the caller invokes sc_call; the body runs up to the first await:
\* Interactor::new(self.gateway_url.clone(), self.wallet) is called
NetScCallInvoke(to, function, esdt_transfers, output) ==
    /\ net_pc = "idle"
    /\ net_pc' = "await_new"
    /\ net_req' = [op |-> "sc_call", to |-> to, function |-> function,
                   esdt_transfers |-> esdt_transfers, output |-> output]
    /\ ops' = <<"Interactor::new">>
    /\ UNCHANGED <<gateway_url, wallet, interactor, result, sc_result, net_outcome>>

\* NetInteractorNewReturns with the call submitted before the inputs are normalized
NetInteractorNewReturnsSubmitFirst(new_ok) ==
    /\ net_pc = "await_new"
    /\ IF ~new_ok
       THEN /\ net_pc' = "done"
            /\ net_outcome' = Err("Interactor::new")
            /\ UNCHANGED <<interactor, ops>>
       ELSE /\ interactor' = [open |-> TRUE, gateway_url |-> gateway_url, wallet |-> wallet]
            /\ IF ~Normalize(wallet, net_req.to, net_req.function, net_req.esdt_transfers).ok
               THEN /\ net_pc' = "done"
                    /\ net_outcome' = Err("Normalization")
                    /\ ops' = ops \o <<"interactor.sc_call", "normalize">>
               ELSE /\ net_pc' = "await_sc_call"
                    /\ net_outcome' = net_outcome
                    /\ ops' = ops \o <<"interactor.sc_call", "normalize">>
    /\ UNCHANGED <<gateway_url, wallet, net_req, result, sc_result>>

\* NetInteractorNewReturns opening a second session when the first attempt fails
NetInteractorNewReturnsRetry(new_ok) ==
    /\ net_pc = "await_new"
    /\ IF ~new_ok
       THEN /\ net_pc' = IF Len(ops) < 2 THEN "await_new" ELSE "done"
            /\ net_outcome' = IF Len(ops) < 2 THEN net_outcome ELSE Err("Interactor::new")
            /\ ops' = IF Len(ops) < 2 THEN Append(ops, "Interactor::new") ELSE ops
            /\ UNCHANGED interactor
       ELSE /\ interactor' = [open |-> TRUE, gateway_url |-> gateway_url, wallet |-> wallet]
            /\ IF ~Normalize(wallet, net_req.to, net_req.function, net_req.esdt_transfers).ok
               THEN /\ net_pc' = "done"
                    /\ net_outcome' = Err("Normalization")
                    /\ ops' = Append(ops, "normalize")
               ELSE /\ net_pc' = "await_sc_call"
                    /\ net_outcome' = net_outcome
                    /\ ops' = ops \o <<"normalize", "interactor.sc_call">>
    /\ UNCHANGED <<gateway_url, wallet, net_req, result, sc_result>>

\* Interactor::new returns.  Err: `?` returns it.  Ok: the session is bound,
\* the inputs are normalized (Err: `?` returns it) and interactor.sc_call is
\* called with the normalized receiver and transaction data
NetInteractorNewReturns(new_ok) ==
    /\ net_pc = "await_new"
    /\ IF ~new_ok
       THEN /\ net_pc' = "done"
            /\ net_outcome' = Err("Interactor::new")
            /\ UNCHANGED <<interactor, ops>>
       ELSE /\ interactor' = [open |-> TRUE, gateway_url |-> gateway_url, wallet |-> wallet]
            /\ IF ~Normalize(wallet, net_req.to, net_req.function, net_req.esdt_transfers).ok
               THEN /\ net_pc' = "done"
                    /\ net_outcome' = Err("Normalization")
                    /\ ops' = Append(ops, "normalize")
               ELSE /\ net_pc' = "await_sc_call"
                    /\ net_outcome' = net_outcome
                    /\ ops' = ops \o <<"normalize", "interactor.sc_call">>
    /\ UNCHANGED <<gateway_url, wallet, net_req, result, sc_result>>

\* interactor.sc_call returns.  Err: `?` returns it.  Ok(result): the
\* smart-contract results are scanned and decoded
NetInteractorScCallReturns(call_ok, scrs) ==
    /\ net_pc = "await_sc_call"
    /\ IF ~call_ok
       THEN /\ net_pc' = "done"
            /\ net_outcome' = Err("interactor.sc_call")
            /\ UNCHANGED <<result, sc_result, ops>>
       ELSE /\ result' = Response(scrs)
            /\ sc_result' = find_smart_contract_result(scrs)
            /\ net_outcome' = ScCallDecode(net_req.output, Response(scrs))
            /\ net_pc' = IF ScCallDecode(net_req.output, Response(scrs)).kind = "panic"
                         THEN "panicked" ELSE "done"
            /\ ops' = ops \o ScCallDecodeOps(Response(scrs))
    /\ UNCHANGED <<gateway_url, wallet, net_req, interactor>>

\* NetReturn with the interactor session kept for the next call
NetReturnKeepSession ==
    /\ net_pc = "done"
    /\ net_pc' = "idle"
    /\ net_req' = NoRequest
    /\ ops' = <<>>
    /\ result' = NoResponse
    /\ sc_result' = NoScan
    /\ net_outcome' = NoOutcome
    /\ UNCHANGED <<gateway_url, wallet, interactor>>

\* the caller takes the Result; the locals of the invocation are dropped
NetReturn ==
    /\ net_pc = "done"
    /\ net_pc' = "idle"
    /\ net_req' = NoRequest
    /\ interactor' = NoInteractor
    /\ ops' = <<>>
    /\ result' = NoResponse
    /\ sc_result' = NoScan
    /\ net_outcome' = NoOutcome
    /\ UNCHANGED <<gateway_url, wallet>>

\* BaseTransactionNetworkExecutor::sc_deploy: todo!()
NetScDeploy(step) ==
    /\ net_pc = "idle"
    /\ net_pc' = "panicked"
    /\ net_req' = [NoRequest EXCEPT !.op = "sc_deploy", !.function = step.contract_code]
    /\ ops' = <<>>
    /\ net_outcome' = Panic("not yet implemented")
    /\ UNCHANGED <<gateway_url, wallet, interactor, result, sc_result>>

(***************************************************************************)
(* DummyExecutor                                                           *)
(***************************************************************************)
\* CapturedDeployStep stamping the caller only on a step that names no sender
CapturedDeployStepKeepSender(caller, step) ==
    IF caller.some /\ step.from = "" THEN StampFrom(step, caller.addr) ELSE step

\* lines 96-102: the step sc_deploy stores in self.tx
CapturedDeployStep(caller, step) ==
    IF caller.some THEN StampFrom(step, caller.addr) ELSE step

\* DummyScDeploy writing the stamped step back into the caller's descriptor
DummyScDeployInPlace(step) ==
    /\ deploy_calls < MaxDeployCalls
    /\ sc_deploy_step' = CapturedDeployStep(deploy_caller, step)
    /\ deploy_tx' = CapturedDeployStep(deploy_caller, step)
    /\ deploy_ret' = "Ok"
    /\ deploy_passed' = step
    /\ deploy_calls' = deploy_calls + 1
    /\ UNCHANGED <<deploy_caller, deploy_caller0>>

\* DummyExecutor<ScDeployStep>::sc_deploy
DummyScDeploy(step) ==
    /\ deploy_calls < MaxDeployCalls
    /\ sc_deploy_step' = ScDeployStepNew
    /\ deploy_tx' = CapturedDeployStep(deploy_caller, step)
    /\ deploy_ret' = "Ok"
    /\ deploy_passed' = step
    /\ deploy_calls' = deploy_calls + 1
    /\ UNCHANGED <<deploy_caller, deploy_caller0>>

\* DummyExecutor<ScCallStep>::sc_call: todo!()
DummyScCall(req) ==
    /\ call_outcome.kind = "none"
    /\ call_req' = req
    /\ call_outcome' = Panic("not yet implemented")
    /\ UNCHANGED <<call_tx, call_caller>>

(***************************************************************************)
(* Specifications.                                                         *)
(***************************************************************************)
InitNet ==
    /\ \E g \in GatewayUrls, w \in Wallets : NetworkExecutorNew(g, w)
    /\ DummyDeployExecutorNew(NoneAddress)
    /\ DummyTransactionExecutorNew(NoneAddress)
    /\ backend = "network"
    /\ skip_ret = NoSkip
    /\ clone = NoClone

NextNet ==
    \/ /\ net_pc = "idle"
       /\ \E to \in Addresses, f \in Functions, t \in TransferLists, o \in OutputTypes :
             NetScCallInvoke(to, f, t, o)
       /\ UNCHANGED <<deployVars, callVars, callerVars>>
    \/ /\ net_pc = "await_new"
       /\ \E new_ok \in BOOLEAN : NetInteractorNewReturns(new_ok)
       /\ UNCHANGED <<deployVars, callVars, callerVars>>
    \/ /\ net_pc = "await_sc_call"
       /\ \E call_ok \in BOOLEAN, scrs \in ScrOptions : NetInteractorScCallReturns(call_ok, scrs)
       /\ UNCHANGED <<deployVars, callVars, callerVars>>
    \/ /\ NetReturn
       /\ UNCHANGED <<deployVars, callVars, callerVars>>
    \/ /\ net_pc = "idle"
       /\ \E step \in ScDeploySteps : NetScDeploy(step)
       /\ UNCHANGED <<deployVars, callVars, callerVars>>

SpecNet == InitNet /\ [][NextNet]_vars

InitDummy ==
    /\ NetworkExecutorNew("https://gw1", "alice")
    /\ \E c \in Callers : DummyDeployExecutorNew(c)
    /\ \E c \in Callers : DummyTransactionExecutorNew(c)
    /\ backend = "dummy"
    /\ skip_ret = NoSkip
    /\ clone = NoClone

NextDummy ==
    \/ /\ \E step \in ScDeploySteps : DummyScDeploy(step)
       /\ UNCHANGED <<netVars, callVars, callerVars>>
    \/ /\ \E req \in CallRequests : DummyScCall(req)
       /\ UNCHANGED <<netVars, deployVars, callerVars>>

SpecDummy == InitDummy /\ [][NextDummy]_vars

(***************************************************************************)
(* should_skip_deserialization, asked of the backend selected at           *)
(* construction between its operations.                                    *)
(***************************************************************************)
\* should_skip_deserialization with the network answer inverted
NetworkShouldSkipInverted == TRUE

\* BaseTransactionNetworkExecutor::should_skip_deserialization
NetworkShouldSkip == FALSE
\* DummyExecutor<ScCallStep>::should_skip_deserialization
DummyCallShouldSkip == TRUE
\* DummyExecutor<ScDeployStep>::should_skip_deserialization
DummyDeployShouldSkip == TRUE

\* asked of the network executor while no sc_call is in flight
NetShouldSkipDeserialization ==
    /\ net_pc \in {"idle", "done"}
    /\ skip_ret' = [who |-> "network", value |-> NetworkShouldSkip, at |-> net_pc]
    /\ UNCHANGED <<netVars, deployVars, callVars, backend, clone>>

DummyCallShouldSkipDeserialization ==
    /\ skip_ret' = [who |-> "dummy_call", value |-> DummyCallShouldSkip,
                    at |-> IF call_outcome.kind = "none" THEN "new" ELSE "called"]
    /\ UNCHANGED <<netVars, deployVars, callVars, backend, clone>>

DummyDeployShouldSkipDeserialization ==
    /\ skip_ret' = [who |-> "dummy_deploy", value |-> DummyDeployShouldSkip,
                    at |-> IF deploy_calls = 0 THEN "new" ELSE "called"]
    /\ UNCHANGED <<netVars, deployVars, callVars, backend, clone>>

\* one backend, network or dummy, is selected at construction, in any configuration
InitExecutors ==
    /\ skip_ret = NoSkip
    /\ clone = NoClone
    /\ \/ /\ backend = "network"
          /\ \E g \in GatewayUrls, w \in Wallets : NetworkExecutorNew(g, w)
          /\ DummyDeployExecutorNew(NoneAddress)
          /\ DummyTransactionExecutorNew(NoneAddress)
       \/ /\ backend = "dummy"
          /\ NetworkExecutorNew("https://gw1", "alice")
          /\ \E c \in Callers : DummyDeployExecutorNew(c)
          /\ \E c \in Callers : DummyTransactionExecutorNew(c)

NextExecutors ==
    \/ /\ backend = "network"
       /\ NextNet
    \/ /\ backend = "network"
       /\ NetShouldSkipDeserialization
    \/ /\ backend = "dummy"
       /\ NextDummy
    \/ /\ backend = "dummy"
       /\ DummyCallShouldSkipDeserialization
    \/ /\ backend = "dummy"
       /\ DummyDeployShouldSkipDeserialization

SpecExecutors == InitExecutors /\ [][NextExecutors]_vars

(***************************************************************************)
(* A clone of the network executor, used beside the original: the same     *)
(* sc_call, on the clone's own fields and locals.                          *)
(***************************************************************************)
\* the responses the interactor gives while two executors are in use
ConcurrentScrOptions ==
    { NoneScrs,
      SomeScrs(<< [nonce |-> 7, data |-> Concat(<<At, OkCode, At, Hex2a>>)] >>),
      SomeScrs(<< [nonce |-> 7, data |-> Concat(<<At, OkCode, At, Hex2a, Hex0b>>)] >>),
      SomeScrs(<< [nonce |-> 7, data |-> Concat(<<At, HexUnknown>>)] >>) }

\* Clone::clone: gateway_url cloned, wallet copied
NetClone ==
    /\ net_pc = "idle"
    /\ ~clone.made
    /\ clone' = [NoClone EXCEPT !.made = TRUE, !.gateway_url = gateway_url,
                                !.wallet = wallet]
    /\ UNCHANGED <<netVars, deployVars, callVars, backend, skip_ret>>

\* sc_call on the clone, up to the first await
CloneScCallInvoke(to, function, esdt_transfers, output) ==
    /\ clone.made
    /\ clone.pc = "idle"
    /\ clone' = [clone EXCEPT !.pc = "await_new",
                              !.req = [op |-> "sc_call", to |-> to, function |-> function,
                                       esdt_transfers |-> esdt_transfers,
                                       output |-> output],
                              !.ops = <<"Interactor::new">>]
    /\ UNCHANGED <<netVars, deployVars, callVars, backend, skip_ret>>

\* Interactor::new returns to the clone's sc_call
CloneInteractorNewReturns(new_ok) ==
    /\ clone.pc = "await_new"
    /\ clone' =
         IF ~new_ok
         THEN [clone EXCEPT !.pc = "done", !.outcome = Err("Interactor::new")]
         ELSE LET session == [open |-> TRUE, gateway_url |-> clone.gateway_url,
                              wallet |-> clone.wallet]
              IN  IF ~Normalize(clone.wallet, clone.req.to, clone.req.function,
                                clone.req.esdt_transfers).ok
                  THEN [clone EXCEPT !.interactor = session, !.pc = "done",
                                     !.outcome = Err("Normalization"),
                                     !.ops = Append(clone.ops, "normalize")]
                  ELSE [clone EXCEPT !.interactor = session, !.pc = "await_sc_call",
                                     !.ops = clone.ops \o <<"normalize", "interactor.sc_call">>]
    /\ UNCHANGED <<netVars, deployVars, callVars, backend, skip_ret>>

\* interactor.sc_call returns to the clone's sc_call
CloneInteractorScCallReturns(call_ok, scrs) ==
    /\ clone.pc = "await_sc_call"
    /\ clone' =
         IF ~call_ok
         THEN [clone EXCEPT !.pc = "done", !.outcome = Err("interactor.sc_call")]
         ELSE [clone EXCEPT
                 !.result = Response(scrs),
                 !.sc_result = find_smart_contract_result(scrs),
                 !.outcome = ScCallDecode(clone.req.output, Response(scrs)),
                 !.pc = IF ScCallDecode(clone.req.output, Response(scrs)).kind = "panic"
                        THEN "panicked" ELSE "done",
                 !.ops = clone.ops \o ScCallDecodeOps(Response(scrs))]
    /\ UNCHANGED <<netVars, deployVars, callVars, backend, skip_ret>>

\* the caller takes the clone's Result; the locals of the invocation are dropped
CloneReturn ==
    /\ clone.pc = "done"
    /\ clone' = [NoClone EXCEPT !.made = TRUE, !.gateway_url = clone.gateway_url,
                                !.wallet = clone.wallet]
    /\ UNCHANGED <<netVars, deployVars, callVars, backend, skip_ret>>

NextClones ==
    \/ /\ net_pc = "idle"
       /\ \E to \in Addresses, f \in Functions, t \in TransferLists, o \in OutputTypes :
             NetScCallInvoke(to, f, t, o)
       /\ UNCHANGED <<deployVars, callVars, callerVars>>
    \/ /\ net_pc = "await_new"
       /\ \E new_ok \in BOOLEAN : NetInteractorNewReturns(new_ok)
       /\ UNCHANGED <<deployVars, callVars, callerVars>>
    \/ /\ net_pc = "await_sc_call"
       /\ \E call_ok \in BOOLEAN, scrs \in ConcurrentScrOptions :
             NetInteractorScCallReturns(call_ok, scrs)
       /\ UNCHANGED <<deployVars, callVars, callerVars>>
    \/ /\ NetReturn
       /\ UNCHANGED <<deployVars, callVars, callerVars>>
    \/ NetClone
    \/ \E to \in Addresses, f \in Functions, t \in TransferLists, o \in OutputTypes :
          CloneScCallInvoke(to, f, t, o)
    \/ \E new_ok \in BOOLEAN : CloneInteractorNewReturns(new_ok)
    \/ \E call_ok \in BOOLEAN, scrs \in ConcurrentScrOptions :
          CloneInteractorScCallReturns(call_ok, scrs)
    \/ CloneReturn

SpecClones == InitNet /\ [][NextClones]_vars

(***************************************************************************)
(* Vocabulary of the properties below, stated on the data strings          *)
(* themselves rather than through the operators of the decoder.            *)
(***************************************************************************)
HexDigitChars == {"0","1","2","3","4","5","6","7","8","9",
                  "a","b","c","d","e","f","A","B","C","D","E","F"}

\* lower-case hex of a byte string, two characters a byte
HexEncode(bytes) ==
    Concat([k \in 1..Len(bytes) |->
              <<LowerHex[(bytes[k] \div 16) + 1], LowerHex[(bytes[k] % 16) + 1]>>])

ToLower(str) ==
    [k \in 1..Len(str) |->
        IF \E i \in 11..16 : UpperHex[i] = str[k]
        THEN LowerHex[CHOOSE i \in 11..16 : UpperHex[i] = str[k]]
        ELSE str[k]]

\* "@" followed by the hex of each raw argument, in order
JoinArgs(args) == Concat([k \in 1..Len(args) |-> At \o HexEncode(args[k])])

\* the interactor has returned the finalized transaction and it was scanned
Scanned == result.present /\ sc_result.kind # "unset"
ScrList == result.smart_contract_results.list

\* entry i has a nonzero nonce and data beginning with '@'
Candidate(i) ==
    /\ ScrList[i].nonce # 0
    /\ Len(ScrList[i].data) > 0
    /\ ScrList[i].data[1] = "@"

\* the first candidate in list order (at most one index)
SelectedEntries ==
    { i \in 1..Len(ScrList) : Candidate(i) /\ \A j \in 1..(i - 1) : ~Candidate(j) }

\* the field after the leading '@' is exactly 6f6b
HasOkStatus(data) ==
    /\ Len(data) >= 5
    /\ SubSeq(data, 1, 5) = <<"@","6","f","6","b">>
    /\ (Len(data) = 5 \/ data[6] = "@")

\* the field that begins after the '@' at position p is not valid hex
BadHexFieldAt(data, p) ==
    LET q == CHOOSE e \in (p + 1)..(Len(data) + 1) :
                 /\ (e = Len(data) + 1 \/ data[e] = "@")
                 /\ \A k \in (p + 1)..(e - 1) : data[k] # "@"
    IN  \/ (q - p - 1) % 2 = 1
        \/ \E k \in (p + 1)..(q - 1) : data[k] \notin HexDigitChars

\* some field after the status field is not valid hex
HasBadHexField(data) ==
    \E p \in 6..Len(data) : data[p] = "@" /\ BadHexFieldAt(data, p)

(***************************************************************************)
(* C1: the scan selects the first entry, in list order, with nonzero nonce *)
(* and '@'-prefixed data; when its status field is 6f6b (and its fields    *)
(* are hex), the scan returns exactly the fields after the status field,   *)
(* hex-decoded, in order: re-encoding the returned arguments and joining   *)
(* them behind "@6f6b" gives back the selected entry's data.               *)
(***************************************************************************)
C1_FirstQualifyingDecoded ==
    Scanned =>
        \A i \in SelectedEntries :
            (HasOkStatus(ScrList[i].data) /\ ~HasBadHexField(ScrList[i].data)) =>
                /\ sc_result.kind = "Some"
                /\ \A k \in 1..Len(sc_result.args) :
                       \A b \in 1..Len(sc_result.args[k]) : sc_result.args[k][b] \in 0..255
                /\ <<"@","6","f","6","b">> \o JoinArgs(sc_result.args)
                       = ToLower(ScrList[i].data)

\* the spec's example: [{nonce:0,data:"@6f6b"},{nonce:7,data:"@6f6b@2a"}] gives [0x2a]
C1_Witness ==
    /\ Scanned
    /\ ScrList = << [nonce |-> 0, data |-> <<"@","6","f","6","b">>],
                    [nonce |-> 7, data |-> <<"@","6","f","6","b","@","2","a">>] >>
    /\ sc_result.kind = "Some"
    /\ sc_result.args = << <<42>> >>

(***************************************************************************)
(* C2: when the finalized transaction has no smart-contract results        *)
(* (absent or empty list) or no entry with nonzero nonce and '@'-prefixed  *)
(* data, sc_call returns the error NoSmartContractResult and no CallResult.*)
(***************************************************************************)
C2_NoSmartContractResult ==
    (result.present /\ SelectedEntries = {}) =>
        /\ net_pc = "done"
        /\ net_outcome.kind = "err"
        /\ net_outcome.err = "NoSmartContractResult"
        /\ ~net_outcome.response.present
        /\ ~net_outcome.result.some

C2_Witness ==
    /\ result.present
    /\ result.smart_contract_results.present
    /\ Len(ScrList) = 2
    /\ ScrList[1].nonce = 0 /\ ScrList[1].data = <<"@","6","f","6","b">>
    /\ ScrList[2].nonce = 7 /\ ScrList[2].data = <<"6","f","6","b">>
    /\ net_outcome.err = "NoSmartContractResult"

(***************************************************************************)
(* C3: when the selected entry's status field is not 6f6b (or is missing), *)
(* sc_call returns an error value to the caller, other than                *)
(* NoSmartContractResult, and the typed multi-decode is not attempted.     *)
(***************************************************************************)
C3_NonSuccessIsErrorValue ==
    Scanned =>
        \A i \in SelectedEntries :
            ~HasOkStatus(ScrList[i].data) =>
                /\ net_outcome.kind = "err"
                /\ net_outcome.err # "NoSmartContractResult"
                /\ \A k \in 1..Len(ops) : ops[k] # "multi_decode"

(***************************************************************************)
(* C4: when the selected entry has status 6f6b but a field after it is not *)
(* valid hex, sc_call returns a decode error to the caller as an error     *)
(* value; it does not succeed with the remaining fields.                   *)
(***************************************************************************)
C4_BadHexIsErrorValue ==
    Scanned =>
        \A i \in SelectedEntries :
            (HasOkStatus(ScrList[i].data) /\ HasBadHexField(ScrList[i].data)) =>
                net_outcome.kind = "err"

(***************************************************************************)
(* C5: when a success-status result is found and hex-decodes but the typed *)
(* multi-decode fails, sc_call returns CannotDecodeSmartContractResult: an *)
(* error value that is neither NoSmartContractResult nor the failure taken *)
(* on a non-success status.                                                *)
(***************************************************************************)
C5_CannotDecode ==
    (Scanned /\ sc_result.kind = "Some"
       /\ ~MultiDecode(net_req.output, sc_result.args).ok) =>
        /\ net_pc = "done"
        /\ net_outcome.kind = "err"
        /\ net_outcome.err = "CannotDecodeSmartContractResult"
        /\ net_outcome.err # "NoSmartContractResult"
        /\ net_outcome.err # "result code is not 'ok'"

\* u8 asked for, the result carries the two-byte argument 0x2a0b
C5_Witness ==
    /\ Scanned
    /\ net_req.output = "u8"
    /\ sc_result.kind = "Some"
    /\ sc_result.args = << <<42, 11>> >>
    /\ net_outcome.err = "CannotDecodeSmartContractResult"

(***************************************************************************)
(* C6: every successful return of the network sc_call carries the          *)
(* finalized transaction the interactor's submit returned as response and  *)
(* a present result, the decoded native value; result is never None, and   *)
(* a failed decode is not a success.                                       *)
(***************************************************************************)
C6_SuccessCarriesResult ==
    net_outcome.kind = "ok" =>
        /\ result.present
        /\ net_outcome.response = result
        /\ net_outcome.result.some
        /\ sc_result.kind = "Some"
        /\ MultiDecode(net_req.output, sc_result.args).ok
        /\ net_outcome.result.value = MultiDecode(net_req.output, sc_result.args).native

C6_Witness ==
    /\ net_pc = "done"
    /\ net_outcome.kind = "ok"
    /\ net_req.output = "u8"
    /\ net_outcome.response = result
    /\ Len(ScrList) = 2
    /\ net_outcome.result = SomeValue(<<42>>)

(***************************************************************************)
(* C7 as stated: when normalization fails, no interactor operation has     *)
(* been performed, neither the session opening nor the call submission.    *)
(***************************************************************************)
C7_NoInteractorOperationBefore ==
    (net_outcome.kind = "err" /\ net_outcome.err = "Normalization") =>
        /\ ~interactor.open
        /\ \A k \in 1..Len(ops) : ops[k] \notin {"Interactor::new", "interactor.sc_call"}

(***************************************************************************)
(* C7 amended: a normalization error is returned before the call is        *)
(* submitted: when normalization fails the session has been opened (once), *)
(* nothing was submitted and no response is held.                          *)
(***************************************************************************)
C7_NoSubmissionBefore ==
    (net_outcome.kind = "err" /\ net_outcome.err = "Normalization") =>
        /\ ops = <<"Interactor::new", "normalize">>
        /\ interactor.open
        /\ ~result.present
        /\ net_pc = "done"

C7_Witness ==
    /\ net_outcome.kind = "err"
    /\ net_outcome.err = "Normalization"
    /\ net_req.to = "malformed"
    /\ interactor.open

(***************************************************************************)
(* C8: sc_deploy on the network executor returns the deploy-not-           *)
(* implemented failure to the caller as an error value, for every deploy   *)
(* step; it neither returns Ok nor aborts.                                 *)
(***************************************************************************)
C8_DeployReturnsError ==
    (net_req.op = "sc_deploy" /\ net_pc # "idle") =>
        /\ net_outcome.kind = "err"
        /\ net_pc = "done"

(***************************************************************************)
(* C9: after any sequence of sc_deploy calls on one DummyExecutor, tx is   *)
(* the step passed to the most recent call, its sender set to the          *)
(* configured caller when one was supplied and left as passed otherwise;   *)
(* every call returned Ok(()) and the configured caller has not changed.   *)
(***************************************************************************)
C9_LastStepCaptured ==
    /\ deploy_caller = deploy_caller0
    /\ deploy_calls > 0 =>
        /\ deploy_ret = "Ok"
        /\ deploy_tx.contract_code = deploy_passed.contract_code
        /\ deploy_tx.gas_limit = deploy_passed.gas_limit
        /\ deploy_tx.from = IF deploy_caller0.some THEN deploy_caller0.addr
                            ELSE deploy_passed.from

\* a second call, with a step that names another sender than the configured caller
C9_Witness ==
    /\ deploy_calls = 2
    /\ deploy_caller0 = SomeAddress("erd1carol")
    /\ deploy_passed = [from |-> "erd1dave", contract_code |-> "codeB", gas_limit |-> 60]
    /\ deploy_tx = [from |-> "erd1carol", contract_code |-> "codeB", gas_limit |-> 60]

(***************************************************************************)
(* C10: the dummy sc_call builds the would-be call step from its           *)
(* arguments, stamps it with the configured caller when there is one,      *)
(* stores it as tx, and returns a CallResult whose result is absent.       *)
(***************************************************************************)
C10_CallCaptured ==
    call_outcome.kind # "none" =>
        /\ call_outcome.kind = "ok"
        /\ ~call_outcome.result.some
        /\ call_tx = [from |-> IF call_caller.some THEN call_caller.addr ELSE "",
                      to |-> call_req.to, function |-> call_req.function,
                      gas_limit |-> call_req.gas_limit,
                      esdt_transfers |-> call_req.esdt_transfers]

(***************************************************************************)
(* C11 as stated: after the dummy sc_deploy the caller sees, through their *)
(* own descriptor, the injected sender and the descriptor's other fields.  *)
(***************************************************************************)
C11_CallerObservesStampedStep ==
    deploy_calls > 0 =>
        /\ sc_deploy_step.contract_code = deploy_passed.contract_code
        /\ sc_deploy_step.gas_limit = deploy_passed.gas_limit
        /\ sc_deploy_step.from = IF deploy_caller.some THEN deploy_caller.addr
                                 ELSE deploy_passed.from

(***************************************************************************)
(* C11 amended: the dummy sc_deploy takes the descriptor out of the        *)
(* caller's handle and leaves a fresh, empty descriptor there; the taken   *)
(* descriptor, with the configured caller injected as sender, is held by   *)
(* the executor's tx.                                                      *)
(***************************************************************************)
C11_DescriptorTaken ==
    deploy_calls > 0 =>
        /\ sc_deploy_step = [from |-> "", contract_code |-> "", gas_limit |-> 0]
        /\ deploy_tx.contract_code = deploy_passed.contract_code
        /\ deploy_tx.gas_limit = deploy_passed.gas_limit
        /\ deploy_tx.from = IF deploy_caller.some THEN deploy_caller.addr
                            ELSE deploy_passed.from

C11_Witness ==
    /\ deploy_calls = 1
    /\ deploy_caller = SomeAddress("erd1carol")
    /\ deploy_passed = [from |-> "erd1dave", contract_code |-> "codeA", gas_limit |-> 60]
    /\ sc_deploy_step = [from |-> "", contract_code |-> "", gas_limit |-> 0]
    /\ deploy_tx = [from |-> "erd1carol", contract_code |-> "codeA", gas_limit |-> 60]

\* how many times operation o occurs in the log of the invocation
CountOps(o) == Cardinality({ k \in 1..Len(ops) : ops[k] = o })

(***************************************************************************)
(* C13: within one network sc_call a session is opened at most once and    *)
(* the call is submitted at most once, and every invocation ends in        *)
(* exactly one outcome: one CallResult or one error, never a partial       *)
(* result.                                                                 *)
(***************************************************************************)
C13_OneOutcomePerCall ==
    /\ CountOps("Interactor::new") <= 1
    /\ CountOps("interactor.sc_call") <= 1
    /\ (net_req.op = "sc_call" /\ net_pc \in {"done", "panicked"}) =>
          \/ /\ net_outcome.kind = "ok"
             /\ net_outcome.response.present
             /\ net_outcome.result.some
          \/ /\ net_outcome.kind = "err"
             /\ ~net_outcome.response.present
             /\ ~net_outcome.result.some

(***************************************************************************)
(* C14: when opening the interactor session fails, that error is returned  *)
(* at once: the session opening was attempted once, nothing was submitted, *)
(* and no result scan or decode took place.                                *)
(***************************************************************************)
C14_SessionFailureReturned ==
    (net_outcome.kind = "err" /\ net_outcome.err = "Interactor::new") =>
        /\ net_pc = "done"
        /\ ops = <<"Interactor::new">>
        /\ ~interactor.open
        /\ ~result.present
        /\ sc_result.kind = "unset"

C14_Witness ==
    /\ net_pc = "done"
    /\ net_req.op = "sc_call"
    /\ net_req.to = "erd1contract"
    /\ net_outcome = Err("Interactor::new")
    /\ ops = <<"Interactor::new">>

(***************************************************************************)
(* C16: the scan commits to the first entry with nonzero nonce and         *)
(* '@'-prefixed data: when its status is not 6f6b or one of its fields is  *)
(* not valid hex, no later entry is used in its place and the call does    *)
(* not succeed.                                                            *)
(***************************************************************************)
C16_NoFallback ==
    Scanned =>
        \A i \in SelectedEntries :
            (~HasOkStatus(ScrList[i].data) \/ HasBadHexField(ScrList[i].data)) =>
                /\ sc_result.kind # "Some"
                /\ net_outcome.kind # "ok"
                /\ ~net_outcome.result.some

\* a non-success entry followed by a qualifying success entry
C16_Witness ==
    /\ Scanned
    /\ Len(ScrList) = 2
    /\ ScrList[1] = [nonce |-> 7, data |-> <<"@","6","f","6","b","@","7">>]
    /\ ScrList[2] = [nonce |-> 7, data |-> <<"@","6","f","6","b","@","2","a">>]
    /\ net_req.output = "u8"
    /\ net_outcome.kind # "ok"

(***************************************************************************)
(* C12: should_skip_deserialization returns false for the network executor *)
(* and true for the dummy executor, call and deploy variant alike, in      *)
(* every configuration and in every state the sc_call / sc_deploy          *)
(* invocations lead to; asking changes no state of any executor.           *)
(***************************************************************************)
C12_SkipDeserialization ==
    /\ [](skip_ret.who = "network" => skip_ret.value = FALSE)
    /\ [](skip_ret.who \in {"dummy_call", "dummy_deploy"} => skip_ret.value = TRUE)
    /\ [][skip_ret' # skip_ret => UNCHANGED <<netVars, deployVars, callVars>>]_vars

\* asked of the network executor once an sc_call has returned its CallResult
C12_Witness ==
    /\ skip_ret = [who |-> "network", value |-> FALSE, at |-> "done"]
    /\ gateway_url = "https://gw2"
    /\ net_outcome.kind = "ok"

(***************************************************************************)
(* C15: every network sc_call opens its own fresh interactor session and   *)
(* leaves gateway_url and wallet unchanged whatever its outcome; calls on  *)
(* the executor and on a clone of it, in any interleaving, share no        *)
(* interactor state, and the outcome of a call does not depend on earlier  *)
(* calls: no session outlives its call, each session is made from the      *)
(* fields of the executor that opened it, a step of one executor's call    *)
(* leaves the other's fields and locals alone, and two finished calls that *)
(* took the same arguments, steps and response have the same outcome.      *)
(***************************************************************************)
C15_FreshSessionPerCall ==
    /\ [](net_pc = "idle" => interactor = NoInteractor)
    /\ [](clone.pc = "idle" => clone.interactor = NoInteractor)
    /\ [](interactor.open =>
            /\ interactor.gateway_url = gateway_url
            /\ interactor.wallet = wallet
            /\ CountOps("Interactor::new") = 1)
    /\ [](clone.interactor.open =>
            /\ clone.interactor.gateway_url = clone.gateway_url
            /\ clone.interactor.wallet = clone.wallet)
    /\ [](clone.made => clone.gateway_url = gateway_url /\ clone.wallet = wallet)
    /\ [][gateway_url' = gateway_url /\ wallet' = wallet]_vars
    /\ [][clone.made => /\ clone'.made
                        /\ clone'.gateway_url = clone.gateway_url
                        /\ clone'.wallet = clone.wallet]_vars
    /\ [][netVars' # netVars => clone' = clone]_vars
    /\ [][clone' # clone => netVars' = netVars]_vars
    /\ []((/\ net_pc \in {"done", "panicked"}
           /\ clone.pc = net_pc
           /\ clone.req = net_req
           /\ clone.ops = ops
           /\ clone.result = result) => clone.outcome = net_outcome)

\* the executor awaits its submission on its own session while its clone,
\* on its own session, has already finished a call
C15_Witness ==
    /\ net_pc = "await_sc_call"
    /\ interactor.open
    /\ clone.made
    /\ clone.pc = "done"
    /\ clone.interactor.open
    /\ clone.outcome.kind = "ok"
    /\ gateway_url = "https://gw2"

====
